---- MODULE Spec2Model ----
(***************************************************************************)
(* slimcontext: token-threshold chat history compression.                  *)
(*                                                                         *)
(* The model follows one compressor instance and the caller that owns the  *)
(* conversation.  Spec is a TrimCompressor whose caller appends messages,  *)
(* calls compress, may call compress once more on the returned list, and   *)
(* may continue from the returned list.  SpecConfig is the construction of *)
(* an instance from a configuration.  SpecAsync is an instance of one of   *)
(* the classes (TrimCompressor, the token-threshold SummarizeCompressor,   *)
(* the message-count SummarizeCompressor) with two call sites whose        *)
(* compress calls may be in flight at the same time: a call runs up to its *)
(* await of model.invoke and goes on when the model answers or rejects.    *)
(* SpecCount is the message-count SummarizeCompressor from its             *)
(* construction on, used the same way.  SpecAdapter is one LangChain       *)
(* message converted by the adapter (baseToSlim) and converted back        *)
(* (slimToLangChain).                                                      *)
(*                                                                         *)
(* A message is a record [role, content, metadata].  content is a string,  *)
(* modelled as the sequence of its characters; metadata is the optional    *)
(* key/value bag, modelled as a set of pairs (empty when absent).  An      *)
(* optional configuration field is a set: {} when unset, {v} when given.   *)
(* thresholdPercent is a real number in the code; the model holds it in    *)
(* hundredths (0.5 is 50), so floor(max * percent) is (max * p) \div 100.  *)
(***************************************************************************)
EXTENDS Integers, Sequences, FiniteSets, TLC

VARIABLES
    config,     \* the TokenBudgetConfig handed to the constructor
    cfg,        \* this.cfg: the normalized configuration of the instance
    messages,   \* the caller's history: the list handed to compress
    pc,         \* "idle" | "compressed" | "recompressed"
    allowed,    \* what shouldAllowCompression returned in the last call
    result,     \* the list the last compress(messages) resolved with
    again,      \* the list compress(result) resolved with
    strategy,   \* the class of the instance: "trim" | "summarize" | "summarize-count"
    summaryPrompt,  \* this.summaryPrompt of a SummarizeCompressor
    maxMessages,    \* this.maxMessages of the message-count SummarizeCompressor
    calls,      \* the compress calls of the call sites: one record per call site
    rest,       \* the messages the conversation will still bring
    adapter     \* a LangChain message on its way through the adapter and back

vars == <<config, cfg, messages, pc, allowed, result, again,
          strategy, summaryPrompt, maxMessages, calls, rest, adapter>>

\* What the steps of a TrimCompressor and of its single caller leave alone.
asyncVars == <<strategy, summaryPrompt, maxMessages, calls, rest, adapter>>

----------------------------------------------------------------------------
(* Bounds of the model *)

\* Longest history the caller builds by appending, one message at a time.
MaxLen == 3

----------------------------------------------------------------------------
(* Messages *)

Roles == {"system", "user", "human", "assistant", "tool"}

DigitChars == <<"1", "2", "3", "4", "5", "6", "7", "8", "9">>

\* Characters of a string the caller writes for a message of a given role.
RoleText(role) ==
    CASE role = "system"    -> <<"s", "y", "s">>
      [] role = "user"      -> <<"u">>
      [] role = "human"     -> <<"h">>
      [] role = "assistant" -> <<"a">>
      [] role = "tool"      -> <<"t", "o", "o", "l", " ", "r", "e", "s", "u", "l", "t">>

\* Tool results come through an adapter that attaches metadata; the other
\* messages of the model carry none.
RoleMetadata(role) ==
    IF role = "tool" THEN {<<"tool_call_id", "call">>} ELSE {}

Msg(role, content) == [role |-> role, content |-> content, metadata |-> {}]

\* The n-th message of a history, as the caller writes it: "u1", "sys2", ...
NewMessage(role, n) ==
    [role     |-> role,
     content  |-> RoleText(role) \o <<DigitChars[n]>>,
     metadata |-> RoleMetadata(role)]

----------------------------------------------------------------------------
(* strategies/common.ts *)

DEFAULT_MAX_MODEL_TOKENS == 8192
\* 0.7, in hundredths
DEFAULT_THRESHOLD_PERCENT == 70
DEFAULT_MIN_RECENT_MESSAGES == 10
DEFAULT_ESTIMATOR_TOKEN_BIAS == 2

Max(a, b) == IF a >= b THEN a ELSE b

Min(a, b) == IF a <= b THEN a ELSE b

\* Math.ceil(a / b) for a >= 0, b > 0
CeilDiv(a, b) == (a + b - 1) \div b

\* a ?? b
Coalesce(opt, default) == IF opt = {} THEN default ELSE CHOOSE v \in opt : TRUE

\* DEFAULT_ESTIMATOR: Math.ceil(m.content.length / 4) + DEFAULT_ESTIMATOR_TOKEN_BIAS
DEFAULT_ESTIMATOR(m) == CeilDiv(Len(m.content), 4) + DEFAULT_ESTIMATOR_TOKEN_BIAS

\* A TokenEstimator is a function value; the model names the ones it uses:
\* the default, the tests' constant estimators `() => 100` and `() => 50`,
\* and a caller's estimator that charges one token per character.
Estimators ==
    {"DEFAULT_ESTIMATOR", "constant100", "constant50", "contentLength"}

\* estimateTokens(m), for the estimator named est
EstimateTokens(est, m) ==
    CASE est = "DEFAULT_ESTIMATOR" -> DEFAULT_ESTIMATOR(m)
      [] est = "constant100"       -> 100
      [] est = "constant50"        -> 50
      [] est = "contentLength"     -> Len(m.content)

\* Slip: the clamp Math.max(0, ...) is left out.
normalizeBudgetConfigNoClamp(c, options) ==
    LET minRecentDefault == Coalesce(options.minRecentDefault, DEFAULT_MIN_RECENT_MESSAGES)
    IN  [maxModelTokens    |-> Coalesce(c.maxModelTokens, DEFAULT_MAX_MODEL_TOKENS),
         thresholdPercent  |-> Coalesce(c.thresholdPercent, DEFAULT_THRESHOLD_PERCENT),
         estimateTokens    |-> Coalesce(c.estimateTokens, "DEFAULT_ESTIMATOR"),
         minRecentMessages |-> Coalesce(c.minRecentMessages, minRecentDefault)]

\* a || b on numbers: 0 is falsy
OrElse(opt, default) == IF opt = {} \/ opt = {0} THEN default ELSE CHOOSE v \in opt : TRUE

\* Slip: `||` for `??`, a supplied 0 is replaced by the default.
normalizeBudgetConfigFalsy(c, options) ==
    LET minRecentDefault == Coalesce(options.minRecentDefault, DEFAULT_MIN_RECENT_MESSAGES)
    IN  [maxModelTokens    |-> OrElse(c.maxModelTokens, DEFAULT_MAX_MODEL_TOKENS),
         thresholdPercent  |-> OrElse(c.thresholdPercent, DEFAULT_THRESHOLD_PERCENT),
         estimateTokens    |-> Coalesce(c.estimateTokens, "DEFAULT_ESTIMATOR"),
         minRecentMessages |-> Max(0, OrElse(c.minRecentMessages, minRecentDefault))]

normalizeBudgetConfig(c, options) ==
    LET minRecentDefault == Coalesce(options.minRecentDefault, DEFAULT_MIN_RECENT_MESSAGES)
    IN  [maxModelTokens    |-> Coalesce(c.maxModelTokens, DEFAULT_MAX_MODEL_TOKENS),
         thresholdPercent  |-> Coalesce(c.thresholdPercent, DEFAULT_THRESHOLD_PERCENT),
         estimateTokens    |-> Coalesce(c.estimateTokens, "DEFAULT_ESTIMATOR"),
         minRecentMessages |-> Max(0, Coalesce(c.minRecentMessages, minRecentDefault))]

\* Slip: the percentage is floored before it is multiplied.
computeThresholdTokensFloorsPercent(maxModelTokens, thresholdPercent) ==
    maxModelTokens * (thresholdPercent \div 100)

\* Slip: Math.ceil for Math.floor.
computeThresholdTokensCeil(maxModelTokens, thresholdPercent) ==
    (maxModelTokens * thresholdPercent + 99) \div 100

\* Math.floor(maxModelTokens * thresholdPercent), thresholdPercent in hundredths
computeThresholdTokens(maxModelTokens, thresholdPercent) ==
    (maxModelTokens * thresholdPercent) \div 100

\* Slip: the `human` alias is forgotten.
shouldAllowCompressionUserOnly(msgs) ==
    IF Len(msgs) = 0 THEN FALSE
    ELSE msgs[Len(msgs)].role = "user"

\* Slip: only emptiness is tested.
shouldAllowCompressionNonEmpty(msgs) == Len(msgs) # 0

shouldAllowCompression(msgs) ==
    IF Len(msgs) = 0 THEN FALSE
    ELSE LET lastMessage == msgs[Len(msgs)]
         IN  lastMessage.role = "user" \/ lastMessage.role = "human"

----------------------------------------------------------------------------
(* strategies/trim.ts: TrimCompressor *)

\* messages.map((m) => this.cfg.estimateTokens(m))
TokenCounts(c, msgs) == [i \in 1..Len(msgs) |-> EstimateTokens(c.estimateTokens, msgs[i])]

\* tokenCounts.reduce((a, b) => a + b, 0)
RECURSIVE Sum(_)
Sum(s) == IF Len(s) = 0 THEN 0 ELSE s[1] + Sum(Tail(s))

\* Slip: one message too many is protected.
PreserveFromIndexOneMore(c, msgs) == Max(0, Len(msgs) - c.minRecentMessages - 1)

\* Math.max(0, messages.length - this.cfg.minRecentMessages)
PreserveFromIndex(c, msgs) == Max(0, Len(msgs) - c.minRecentMessages)

\* Slip: the first loop protects one message more than the second loop.
IsRecentProtectedOneMore(i, preserveFromIndex) == i >= preserveFromIndex - 1

\* Slip: `>` for `>=`, the oldest protected message is droppable.
IsRecentProtectedStrict(i, preserveFromIndex) == i > preserveFromIndex

\* i is the code's 0-based index
IsRecentProtected(i, preserveFromIndex) == i >= preserveFromIndex

\* Slip: the role is compared with a string no message carries.
IsSystemMisspelt(msg) == msg.role = "sys"

IsSystem(msg) == msg.role = "system"

\* Slip: the first loop does not stop once the total is within the threshold.
RECURSIVE FirstPassNoEarlyStop(_, _, _, _, _, _, _)
FirstPassNoEarlyStop(msgs, tokenCounts, thresholdTokens, preserveFromIndex, i, keepMask, total) ==
    IF ~(i < Len(msgs))
    THEN [keepMask |-> keepMask, total |-> total]
    ELSE IF IsRecentProtected(i, preserveFromIndex) \/ IsSystem(msgs[i + 1])
         THEN FirstPassNoEarlyStop(msgs, tokenCounts, thresholdTokens,
                                   preserveFromIndex, i + 1, keepMask, total)
         ELSE FirstPassNoEarlyStop(msgs, tokenCounts, thresholdTokens,
                                   preserveFromIndex, i + 1,
                                   [keepMask EXCEPT ![i + 1] = FALSE],
                                   total - tokenCounts[i + 1])

\* The first loop, from index i on: the state of the loop is keepMask and total.
RECURSIVE FirstPass(_, _, _, _, _, _, _)
FirstPass(msgs, tokenCounts, thresholdTokens, preserveFromIndex, i, keepMask, total) ==
    IF ~(i < Len(msgs) /\ total > thresholdTokens)
    THEN [keepMask |-> keepMask, total |-> total]
    ELSE IF IsRecentProtected(i, preserveFromIndex) \/ IsSystem(msgs[i + 1])
         THEN FirstPass(msgs, tokenCounts, thresholdTokens, preserveFromIndex,
                        i + 1, keepMask, total)
         ELSE FirstPass(msgs, tokenCounts, thresholdTokens, preserveFromIndex,
                        i + 1, [keepMask EXCEPT ![i + 1] = FALSE],
                        total - tokenCounts[i + 1])

\* The second loop, from index i on.
RECURSIVE SecondPass(_, _, _, _, _, _, _)
SecondPass(msgs, tokenCounts, thresholdTokens, preserveFromIndex, i, keepMask, total) ==
    IF ~(i < preserveFromIndex /\ total > thresholdTokens)
    THEN [keepMask |-> keepMask, total |-> total]
    ELSE IF ~keepMask[i + 1] \/ IsSystem(msgs[i + 1])
         THEN SecondPass(msgs, tokenCounts, thresholdTokens, preserveFromIndex,
                         i + 1, keepMask, total)
         ELSE SecondPass(msgs, tokenCounts, thresholdTokens, preserveFromIndex,
                         i + 1, [keepMask EXCEPT ![i + 1] = FALSE],
                         total - tokenCounts[i + 1])

\* Slip: result.unshift for result.push.
RECURSIVE CollectKeptUnshift(_, _, _, _)
CollectKeptUnshift(msgs, keepMask, i, res) ==
    IF ~(i < Len(msgs)) THEN res
    ELSE CollectKeptUnshift(msgs, keepMask, i + 1,
                            IF keepMask[i + 1] THEN <<msgs[i + 1]>> \o res ELSE res)

\* The final loop: result.push(messages[i]) for every i with keepMask[i]
RECURSIVE CollectKept(_, _, _, _)
CollectKept(msgs, keepMask, i, res) ==
    IF ~(i < Len(msgs)) THEN res
    ELSE CollectKept(msgs, keepMask, i + 1,
                     IF keepMask[i + 1] THEN Append(res, msgs[i + 1]) ELSE res)

\* TrimCompressor.compress(messages): the resolved value
TrimCompress(c, msgs) ==
    IF ~shouldAllowCompression(msgs) THEN msgs
    ELSE
      LET thresholdTokens == computeThresholdTokens(c.maxModelTokens, c.thresholdPercent)
          tokenCounts == TokenCounts(c, msgs)
          total == Sum(tokenCounts)
      IN  IF total <= thresholdTokens THEN msgs
          ELSE
            LET preserveFromIndex == PreserveFromIndex(c, msgs)
                keepMask == [i \in 1..Len(msgs) |-> TRUE]
                p1 == FirstPass(msgs, tokenCounts, thresholdTokens, preserveFromIndex,
                                0, keepMask, total)
                p2 == SecondPass(msgs, tokenCounts, thresholdTokens, preserveFromIndex,
                                 0, p1.keepMask, p1.total)
            IN  CollectKept(msgs, p2.keepMask, 0, <<>>)

\* compress(messages) past its two early returns: keepMask and total when
\* the first loop has ended
AfterFirstPass(c, msgs) ==
    LET tokenCounts == TokenCounts(c, msgs)
    IN  FirstPass(msgs, tokenCounts,
                  computeThresholdTokens(c.maxModelTokens, c.thresholdPercent),
                  PreserveFromIndex(c, msgs), 0,
                  [i \in 1..Len(msgs) |-> TRUE], Sum(tokenCounts))

\* compress(messages) with the second loop deleted
TrimCompressFirstPassOnly(c, msgs) ==
    IF ~shouldAllowCompression(msgs) THEN msgs
    ELSE IF Sum(TokenCounts(c, msgs))
              <= computeThresholdTokens(c.maxModelTokens, c.thresholdPercent)
         THEN msgs
         ELSE CollectKept(msgs, AfterFirstPass(c, msgs).keepMask, 0, <<>>)

----------------------------------------------------------------------------
(* strategies/summarize.ts: SummarizeCompressor *)

\* DEFAULT_SUMMARY_PROMPT.  The text is several paragraphs long and is only
\* ever passed on whole; the model holds its first sentence.
DEFAULT_SUMMARY_PROMPT ==
    << "Y", "o", "u", " ", "a", "r", "e", " ", "a", "n", " ", "e",
       "x", "p", "e", "r", "t", " ", "c", "o", "n", "v", "e", "r",
       "s", "a", "t", "i", "o", "n", " ", "s", "u", "m", "m", "a",
       "r", "i", "z", "e", "r", "." >>

\* config.prompt || DEFAULT_SUMMARY_PROMPT: an empty prompt is falsy too
PromptOrDefault(opt) ==
    IF opt = {} \/ opt = {<<>>} THEN DEFAULT_SUMMARY_PROMPT
    ELSE CHOOSE v \in opt : TRUE

\* estimateTotalTokens(messages, estimateTokens)
estimateTotalTokens(msgs, est) ==
    IF Len(msgs) = 0 THEN 0
    ELSE Sum([i \in 1..Len(msgs) |-> EstimateTokens(est, msgs[i])])

\* messages.slice(start, end) for 0 <= start and 0 <= end: the elements at
\* the 0-based indices start .. end - 1 that exist, in a new array
Slice(msgs, start, end) ==
    IF start >= Min(end, Len(msgs)) THEN <<>>
    ELSE SubSeq(msgs, start + 1, Min(end, Len(msgs)))

\* messages[0]?.role === 'system'
HasSystemFirst(msgs) == Len(msgs) > 0 /\ msgs[1].role = "system"

\* systemMessage: the leading system message, or undefined (no element)
SystemMessage(msgs) == IF HasSystemFirst(msgs) THEN <<msgs[1]>> ELSE <<>>

\* The characters of a role, as a template literal writes them.
RoleChars(role) ==
    CASE role = "system"    -> <<"s", "y", "s", "t", "e", "m">>
      [] role = "user"      -> <<"u", "s", "e", "r">>
      [] role = "human"     -> <<"h", "u", "m", "a", "n">>
      [] role = "assistant" -> <<"a", "s", "s", "i", "s", "t", "a", "n", "t">>
      [] role = "tool"      -> <<"t", "o", "o", "l">>

\* Slip: the entry renders the content alone.
TranscriptEntryContentOnly(msg) == msg.content

\* `${msg.role}: ${msg.content}`
TranscriptEntry(msg) == RoleChars(msg.role) \o <<":", " ">> \o msg.content

TranscriptSeparator == <<"\n", "-", "-", "-", "\n">>

\* entries.join('\n---\n')
RECURSIVE Join(_)
Join(entries) ==
    IF Len(entries) = 0 THEN <<>>
    ELSE IF Len(entries) = 1 THEN entries[1]
    ELSE entries[1] \o TranscriptSeparator \o Join(Tail(entries))

\* conversationText
ConversationText(messagesToSummarize) ==
    Join([i \in 1..Len(messagesToSummarize) |->
              TranscriptEntry(messagesToSummarize[i])])

\* promptMessages
PromptMessages(prompt, conversationText) ==
    << Msg("system", prompt), Msg("user", conversationText) >>

SummaryPrefix ==
    << "[", "C", "o", "n", "t", "e", "x", "t", " ", "f", "r", "o",
       "m", " ", "a", " ", "s", "u", "m", "m", "a", "r", "i", "z",
       "e", "d", " ", "p", "o", "r", "t", "i", "o", "n", " ", "o",
       "f", " ", "t", "h", "e", " ", "c", "o", "n", "v", "e", "r",
       "s", "a", "t", "i", "o", "n", " ", "b", "e", "t", "w", "e",
       "e", "n", " ", "y", "o", "u", " ", "a", "n", "d", " ", "t",
       "h", "e", " ", "u", "s", "e", "r", "]", ":", " " >>

\* summaryMessage
SummaryMessage(summaryText) == Msg("system", SummaryPrefix \o summaryText)

\* Slip: the message after the leading system message is left out as well.
SummarizeStartPastSecond(hasSystemFirst) == IF hasSystemFirst THEN 2 ELSE 0

\* Slip: the leading system message is summarized with the rest.
SummarizeStartZero(hasSystemFirst) == 0

SummarizeStart(hasSystemFirst) == IF hasSystemFirst THEN 1 ELSE 0

\* Slip: the kept tail is put before the summary.
ComposeResultTailFirst(systemMessage, summaryMessage, messagesToKeep) ==
    systemMessage \o messagesToKeep \o <<summaryMessage>>

\* [systemMessage, summaryMessage, ...messagesToKeep], without the system
\* message when there is none
ComposeResult(systemMessage, summaryMessage, messagesToKeep) ==
    systemMessage \o <<summaryMessage>> \o messagesToKeep

\* What compress decides before its await: to return a list at once ...
ReturnAtOnce(list) ==
    [kind |-> "return", result |-> list, promptMessages |-> <<>>,
     locals |-> <<>>]

\* ... or to call model.invoke(promptMessages) and go on afterwards with
\* its locals systemMessage and messagesToKeep.
InvokeModel(promptMessages, systemMessage, messagesToKeep) ==
    [kind |-> "invoke", result |-> <<>>, promptMessages |-> promptMessages,
     locals |-> <<systemMessage, messagesToKeep>>]

\* The message-count SummarizeCompressor -----------------------------------

\* Slip: two slots are reserved also when there is no system message.
computeKeepStartIndexReservesTwo(max, msgs, hasSystemFirst) ==
    LET reservedSlots    == 2
        baseRecentBudget == max - reservedSlots
        minStart         == IF hasSystemFirst THEN 1 ELSE 0
        start0           == Len(msgs) - baseRecentBudget
        start1           == IF start0 < minStart THEN minStart ELSE start0
        startIdx         == IF start1 >= Len(msgs) THEN Len(msgs) - 1 ELSE start1
    IN  IF startIdx >= 0 /\ startIdx < Len(msgs)
           /\ msgs[startIdx + 1].role # "user"
        THEN IF startIdx + 1 < Len(msgs) /\ msgs[startIdx + 2].role = "user"
             THEN startIdx + 1
             ELSE IF startIdx - 1 >= minStart /\ msgs[startIdx].role = "user"
                  THEN startIdx - 1
                  ELSE startIdx
        ELSE startIdx

\* Slip: the shift backward is tried before the shift forward.
computeKeepStartIndexBackwardFirst(max, msgs, hasSystemFirst) ==
    LET reservedSlots    == IF hasSystemFirst THEN 2 ELSE 1
        baseRecentBudget == max - reservedSlots
        minStart         == IF hasSystemFirst THEN 1 ELSE 0
        start0           == Len(msgs) - baseRecentBudget
        start1           == IF start0 < minStart THEN minStart ELSE start0
        startIdx         == IF start1 >= Len(msgs) THEN Len(msgs) - 1 ELSE start1
    IN  IF startIdx >= 0 /\ startIdx < Len(msgs)
           /\ msgs[startIdx + 1].role # "user"
        THEN IF startIdx - 1 >= minStart /\ msgs[startIdx].role = "user"
             THEN startIdx - 1
             ELSE IF startIdx + 1 < Len(msgs) /\ msgs[startIdx + 2].role = "user"
                  THEN startIdx + 1
                  ELSE startIdx
        ELSE startIdx

\* computeKeepStartIndex(messages, hasSystemFirst); indices are 0-based as
\* in the code, messages[i] is msgs[i + 1]
computeKeepStartIndex(max, msgs, hasSystemFirst) ==
    LET reservedSlots    == IF hasSystemFirst THEN 2 ELSE 1
        baseRecentBudget == max - reservedSlots
        minStart         == IF hasSystemFirst THEN 1 ELSE 0
        start0           == Len(msgs) - baseRecentBudget
        start1           == IF start0 < minStart THEN minStart ELSE start0
        startIdx         == IF start1 >= Len(msgs) THEN Len(msgs) - 1 ELSE start1
    IN  IF startIdx >= 0 /\ startIdx < Len(msgs)
           /\ msgs[startIdx + 1].role # "user"
        THEN IF startIdx + 1 < Len(msgs) /\ msgs[startIdx + 2].role = "user"
             THEN startIdx + 1
             ELSE IF startIdx - 1 >= minStart /\ msgs[startIdx].role = "user"
                  THEN startIdx - 1
                  ELSE startIdx
        ELSE startIdx

\* compress(messages) up to its await
SummarizeByCount(max, prompt, msgs) ==
    IF Len(msgs) <= max THEN ReturnAtOnce(msgs)
    ELSE LET hasSystemFirst == HasSystemFirst(msgs)
             startIdx       == computeKeepStartIndex(max, msgs, hasSystemFirst)
             messagesToKeep == Slice(msgs, startIdx, Len(msgs))
             messagesToSummarize ==
                 Slice(msgs, SummarizeStart(hasSystemFirst), startIdx)
         IN  InvokeModel(PromptMessages(prompt,
                                        ConversationText(messagesToSummarize)),
                         SystemMessage(msgs), messagesToKeep)

\* The token-threshold SummarizeCompressor ---------------------------------

\* keepTailStart = max(0, length - minRecentMessages)
KeepTailStart(c, msgs) == Max(0, Len(msgs) - c.minRecentMessages)

\* compress(messages) up to its await
SummarizeByTokens(c, prompt, msgs) ==
    IF ~shouldAllowCompression(msgs) THEN ReturnAtOnce(msgs)
    ELSE IF estimateTotalTokens(msgs, c.estimateTokens)
              <= computeThresholdTokens(c.maxModelTokens, c.thresholdPercent)
    THEN ReturnAtOnce(msgs)
    ELSE LET hasLeadingSystem == HasSystemFirst(msgs)
             keepTailStart    == KeepTailStart(c, msgs)
             middle == Slice(msgs, SummarizeStart(hasLeadingSystem),
                             keepTailStart)
         IN  IF Len(middle) = 0 THEN ReturnAtOnce(msgs)
             ELSE InvokeModel(PromptMessages(prompt, ConversationText(middle)),
                              SystemMessage(msgs),
                              Slice(msgs, keepTailStart, Len(msgs)))

----------------------------------------------------------------------------
(* adapters/langchain.ts: LangChain messages to SlimContext messages and back *)

\* A LangChain message is a record [type, content, id, name,
\* additional_kwargs, response_metadata, tool_call_id, status, artifact,
\* metadata].  type is the class ("generic" is a class other than the four
\* the adapter tests for).  A field that may be undefined is a set: {} when
\* undefined, {v} when v.  An object is the set of its key/value pairs.
\* content is [kind, text, parts]: a string (kind "string", text its
\* characters) or an array of content parts (kind "array").  A content part
\* is [kind, type, text]: a string (kind "string") or an object; text is the
\* part's text when it is a string, {} otherwise.
StringContent(chars) == [kind |-> "string", text |-> chars, parts |-> <<>>]

ArrayContent(parts) == [kind |-> "array", text |-> <<>>, parts |-> parts]

StringPart(chars) == [kind |-> "string", type |-> "", text |-> {chars}]

TextPart(chars) == [kind |-> "object", type |-> "text", text |-> {chars}]

ImagePart == [kind |-> "object", type |-> "image_url", text |-> {}]

\* The characters String.prototype.trim removes, as far as the model has them
Whitespace == {" ", "\n"}

RECURSIVE TrimStart(_)
TrimStart(s) ==
    IF s # <<>> /\ Head(s) \in Whitespace THEN TrimStart(Tail(s)) ELSE s

RECURSIVE TrimEnd(_)
TrimEnd(s) ==
    IF s # <<>> /\ s[Len(s)] \in Whitespace
    THEN TrimEnd(SubSeq(s, 1, Len(s) - 1))
    ELSE s

\* s.trim()
StringTrim(s) == TrimEnd(TrimStart(s))

\* The callback of content.map(...): the text of one content part
PartText(part) ==
    IF part.kind = "string" THEN CHOOSE t \in part.text : TRUE
    ELSE IF part.text # {} THEN CHOOSE t \in part.text : TRUE
    ELSE <<>>

\* content.map(...).filter(Boolean): the non-empty texts of the parts
RECURSIVE PartTexts(_)
PartTexts(parts) ==
    IF parts = <<>> THEN <<>>
    ELSE LET t == PartText(Head(parts))
         IN  IF t = <<>> THEN PartTexts(Tail(parts))
             ELSE <<t>> \o PartTexts(Tail(parts))

\* parts.join('\n')
RECURSIVE JoinLines(_)
JoinLines(texts) ==
    IF texts = <<>> THEN <<>>
    ELSE IF Len(texts) = 1 THEN texts[1]
    ELSE texts[1] \o <<"\n">> \o JoinLines(Tail(texts))

\* extractContent(content)
extractContent(content) ==
    IF content.kind = "string" THEN StringTrim(content.text)
    ELSE StringTrim(JoinLines(PartTexts(content.parts)))

\* roleFromMessageType(type)
roleFromMessageType(type) ==
    CASE type = "ai" -> "assistant"
      [] type = "system" -> "system"
      [] type = "tool" -> "tool"
      [] OTHER -> "user"

\* getLangChainMessageType(msg)
getLangChainMessageType(msg) ==
    IF msg.type \in {"ai", "human", "system", "tool"} THEN msg.type
    ELSE "human"

\* metadata[key], as a value that may be undefined
MetadataField(metadata, key) == {p[2] : p \in {q \in metadata : q[1] = key}}

\* { key: v } for a value that may be undefined: nothing when it is
Entry(key, value) == {<<key, v>> : v \in value}

\* !value of a content: only the empty string is falsy
ContentIsFalsy(content) == content.kind = "string" /\ content.text = <<>>

\* baseToSlim: the original_content entry, written when nothing was extracted
OriginalContent(content, extractedContent) ==
    IF extractedContent = <<>> THEN {<<"original_content", content>>} ELSE {}

\* baseToSlim(msg)
baseToSlim(msg) ==
    LET type == getLangChainMessageType(msg)
        common ==
            Entry("id", msg.id) \cup Entry("name", msg.name)
            \cup (IF msg.additional_kwargs # {}
                  THEN {<<"additional_kwargs", msg.additional_kwargs>>}
                  ELSE {})
            \cup (IF msg.response_metadata # {}
                  THEN {<<"response_metadata", msg.response_metadata>>}
                  ELSE {})
        tool ==
            IF msg.type = "tool"
            THEN Entry("tool_call_id", msg.tool_call_id)
                 \cup Entry("status", msg.status)
                 \cup Entry("artifact", msg.artifact)
                 \cup Entry("langchain_metadata", msg.metadata)
            ELSE {}
        extractedContent == extractContent(msg.content)
    IN  [role     |-> roleFromMessageType(type),
         content  |-> extractedContent,
         metadata |-> common \cup tool
                      \cup OriginalContent(msg.content, extractedContent)]

\* new AIMessage(fields), new SystemMessage(fields), new ToolMessage(fields),
\* new HumanMessage(fields): the fields given, the two objects empty when
\* not given
NewLangChainMessage(type, fields) ==
    [type              |-> type,
     content           |-> fields.content,
     id                |-> fields.id,
     name              |-> fields.name,
     additional_kwargs |-> IF fields.additional_kwargs = {} THEN {}
                           ELSE CHOOSE o \in fields.additional_kwargs : TRUE,
     response_metadata |-> IF fields.response_metadata = {} THEN {}
                           ELSE CHOOSE o \in fields.response_metadata : TRUE,
     tool_call_id      |-> fields.tool_call_id,
     status            |-> fields.status,
     artifact          |-> fields.artifact,
     metadata          |-> fields.metadata]

\* slimToLangChain: msg.metadata?.original_content || msg.content
RestoredContent(msg) ==
    LET original == MetadataField(msg.metadata, "original_content")
    IN  IF original # {} /\ ~ContentIsFalsy(CHOOSE c \in original : TRUE)
        THEN CHOOSE c \in original : TRUE
        ELSE StringContent(msg.content)

\* slimToLangChain(msg)
slimToLangChain(msg) ==
    LET fields ==
            [content           |-> RestoredContent(msg),
             id                |-> MetadataField(msg.metadata, "id"),
             name              |-> MetadataField(msg.metadata, "name"),
             additional_kwargs |->
                 MetadataField(msg.metadata, "additional_kwargs"),
             response_metadata |->
                 MetadataField(msg.metadata, "response_metadata"),
             tool_call_id      |-> {},
             status            |-> {},
             artifact          |-> {},
             metadata          |-> {}]
        id == MetadataField(msg.metadata, "tool_call_id")
        toolFields ==
            [fields EXCEPT
                !.tool_call_id = IF id # {} /\ id # {""} THEN id ELSE {""},
                !.status = MetadataField(msg.metadata, "status"),
                !.artifact = MetadataField(msg.metadata, "artifact"),
                !.metadata =
                    MetadataField(msg.metadata, "langchain_metadata")]
    IN  CASE msg.role = "assistant" -> NewLangChainMessage("ai", fields)
          [] msg.role = "system" -> NewLangChainMessage("system", fields)
          [] msg.role = "tool" -> NewLangChainMessage("tool", toolFields)
          [] OTHER -> NewLangChainMessage("human", fields)

\* No message is with the adapter.
NoConversion ==
    [pc |-> "none", message |-> <<>>, slim |-> <<>>, restored |-> <<>>]

----------------------------------------------------------------------------
(* The configurations and histories the model starts from *)

\* (maxModelTokens, thresholdPercent, estimateTokens) as callers give them:
\* the tests' budget (threshold 200 at 100 tokens a message), a budget that
\* can never be met (threshold 0), two small budgets over the length-based
\* estimators (thresholds 8 and 11), and the all-defaults budget.
Budgets ==
    { <<{400}, {50}, {"constant100"}>>,
      <<{400}, {0},  {"constant100"}>>,
      <<{16},  {50}, {"contentLength"}>>,
      <<{16},  {},   {}>>,
      <<{},    {},   {}>> }

MinRecentChoices == { {}, {0}, {1}, {2}, {3}, {-1} }

TrimConfigs ==
    { [maxModelTokens    |-> b[1],
       thresholdPercent  |-> b[2],
       estimateTokens    |-> b[3],
       minRecentMessages |-> r] : b \in Budgets, r \in MinRecentChoices }

\* tests/trim.test.ts: the histories of the five tests
HistoryA ==
    << Msg("system", <<"s", "y", "s">>), Msg("user", <<"u", "1">>),
       Msg("assistant", <<"a", "1">>),   Msg("user", <<"u", "2">>),
       Msg("assistant", <<"a", "2">>),   Msg("user", <<"u", "3">>) >>

HistoryToolLast ==
    << Msg("user", <<"u", "1">>), Msg("assistant", <<"a", "1">>),
       Msg("user", <<"u", "2">>),
       Msg("tool", <<"t", "o", "o", "l", " ", "r", "e", "s", "u", "l", "t">>) >>

HistoryAssistantLast ==
    << Msg("user", <<"u", "1">>), Msg("assistant", <<"a", "1">>),
       Msg("user", <<"u", "2">>), Msg("assistant", <<"a", "2">>) >>

HistoryUserLast ==
    << Msg("assistant", <<"a", "1">>), Msg("user", <<"u", "1">>),
       Msg("assistant", <<"a", "2">>), Msg("user", <<"u", "2">>) >>

HistoryHumanLast ==
    << Msg("assistant", <<"a", "1">>), Msg("user", <<"u", "1">>),
       Msg("assistant", <<"a", "2">>), Msg("human", <<"h", "1">>) >>

InitialHistories ==
    { <<>>, HistoryA, HistoryToolLast, HistoryAssistantLast,
      HistoryUserLast, HistoryHumanLast }

----------------------------------------------------------------------------
(* Compress calls in flight *)

\* The call sites that use the instance.
Callers == {"a", "b"}

\* The record of a call site that has no call in flight and no result at hand.
NoCall ==
    [pc          |-> "none",   \* "none" | "awaiting" | "resolved" | "rejected"
     before      |-> <<>>,     \* the list as it was handed to compress
     input       |-> <<>>,     \* the same list object, as it is now
     locals      |-> <<>>,     \* what the call keeps across its await
     invocations |-> <<>>,     \* the arguments of its model.invoke calls
     response    |-> <<>>,     \* the content the model answered with
     failure     |-> "",       \* the failure the model rejected with
     result      |-> <<>>,     \* the list the call resolved with
     error       |-> ""]       \* the failure the call rejected with

NoCalls == [c \in Callers |-> NoCall]

----------------------------------------------------------------------------
(* The state machine *)

\* new TrimCompressor(config), and the history the caller starts with
Init ==
    /\ config \in TrimConfigs
    /\ cfg = normalizeBudgetConfig(config, [minRecentDefault |-> {2}])
    /\ messages \in InitialHistories
    /\ pc = "idle"
    /\ allowed = FALSE
    /\ result = <<>>
    /\ again = <<>>
    /\ strategy = "trim"
    /\ summaryPrompt = <<>>
    /\ maxMessages = 0
    /\ calls = NoCalls
    /\ rest = <<>>
    /\ adapter = NoConversion

\* The caller appends the next message of the conversation to its history.
AppendMessage(role) ==
    /\ pc = "idle"
    /\ Len(messages) < MaxLen
    /\ messages' = Append(messages, NewMessage(role, Len(messages) + 1))
    /\ UNCHANGED <<config, cfg, pc, allowed, result, again>>
    /\ UNCHANGED asyncVars

\* result = await trim.compress(messages)
Compress ==
    /\ pc = "idle"
    /\ allowed' = shouldAllowCompression(messages)
    /\ result' = TrimCompress(cfg, messages)
    /\ pc' = "compressed"
    /\ UNCHANGED <<config, cfg, messages, again>>
    /\ UNCHANGED asyncVars

\* again = await trim.compress(result)
CompressAgain ==
    /\ pc = "compressed"
    /\ again' = TrimCompress(cfg, result)
    /\ pc' = "recompressed"
    /\ UNCHANGED <<config, cfg, messages, allowed, result>>
    /\ UNCHANGED asyncVars

\* The caller continues the conversation from the compressed history.
Adopt ==
    /\ pc \in {"compressed", "recompressed"}
    /\ messages' = result
    /\ pc' = "idle"
    /\ allowed' = FALSE
    /\ result' = <<>>
    /\ again' = <<>>
    /\ UNCHANGED <<config, cfg>>
    /\ UNCHANGED asyncVars

Next ==
    \/ \E role \in Roles : AppendMessage(role)
    \/ Compress
    \/ CompressAgain
    \/ Adopt

Spec == Init /\ [][Next]_vars

----------------------------------------------------------------------------
(* Construction of an instance from a configuration *)

\* Every combination of the token-budget fields, unset, in their documented
\* domains and outside them (thresholdPercent 1.5 and -0.1, a negative
\* maxModelTokens, a negative minRecentMessages).
AnyBudgetConfigs ==
    [maxModelTokens    : { {}, {400}, {16}, {0}, {-400} },
     thresholdPercent  : { {}, {50}, {0}, {100}, {150}, {-10} },
     estimateTokens    : { {}, {"constant100"}, {"contentLength"} },
     minRecentMessages : { {}, {0}, {1}, {2}, {3}, {5}, {-1} }]

\* this.cfg before the constructor has run
NotConstructed ==
    [maxModelTokens    |-> 0,
     thresholdPercent  |-> 0,
     estimateTokens    |-> "none",
     minRecentMessages |-> 0]

\* The options a strategy's constructor hands to normalizeBudgetConfig.
TrimOptions == [minRecentDefault |-> {2}]
SummarizeOptions == [minRecentDefault |-> {4}]

ConstructorOptions(s) == IF s = "trim" THEN TrimOptions ELSE SummarizeOptions

InitConfig ==
    /\ strategy \in {"trim", "summarize"}
    /\ config \in AnyBudgetConfigs
    /\ cfg = NotConstructed
    /\ pc = "new"
    /\ messages = <<>>
    /\ allowed = FALSE
    /\ result = <<>>
    /\ again = <<>>
    /\ summaryPrompt = <<>>
    /\ maxMessages = 0
    /\ calls = NoCalls
    /\ rest = <<>>
    /\ adapter = NoConversion

\* new TrimCompressor(config) / new SummarizeCompressor(config): the budget part
Construct ==
    /\ pc = "new"
    /\ cfg' = normalizeBudgetConfig(config, ConstructorOptions(strategy))
    /\ pc' = "constructed"
    /\ UNCHANGED <<config, messages, allowed, result, again,
                   strategy, summaryPrompt, maxMessages, calls, rest>>
    /\ UNCHANGED adapter

NextConfig == Construct

SpecConfig == InitConfig /\ [][NextConfig]_vars

----------------------------------------------------------------------------
(* An instance of either strategy used from two call sites *)

\* The contents the model capability may answer with: the tests' fake
\* model answers 'fake summary'.
ModelTexts ==
    { << "f", "a", "k", "e", " ", "s", "u", "m", "m", "a", "r", "y" >>,
      << "o", "t", "h", "e", "r" >> }

\* The failures the model capability may reject with.
ModelFailures == {"model unavailable"}

\* tests of the token-threshold SummarizeCompressor: [system, u0 .. u9]
HistoryScenarioC ==
    << Msg("system", <<"s", "y", "s">>) >>
    \o [i \in 1..10 |-> Msg("user", <<"u", <<"0", "1", "2", "3", "4", "5", "6", "7", "8", "9">>[i]>>)]

\* [system, u1, u2]: nothing lies between the system message and a tail of two
HistoryScenarioD ==
    << Msg("system", <<"s", "y", "s">>), Msg("user", <<"u", "1">>),
       Msg("user", <<"u", "2">>) >>

\* A conversation whose turns are written by `human`, with a tool result
\* that carries metadata.
HistoryHumanTurns ==
    << Msg("assistant", <<"a", "1">>), Msg("user", <<"u", "2">>),
       NewMessage("tool", 3),          Msg("human", <<"h", "4">>),
       Msg("user", <<"u", "5">>),      Msg("human", <<"h", "6">>) >>

\* The histories a conversation has reached when the model takes it up ...
AsyncHistories ==
    { <<>>, HistoryScenarioC, HistoryScenarioD, HistoryHumanTurns, HistoryA,
      HistoryToolLast, HistoryAssistantLast, HistoryUserLast,
      HistoryHumanLast }

\* ... and the messages it will still bring: none, or one more exchange.
Continuations ==
    { <<>>,
      << Msg("assistant", <<"a", "n">>), Msg("user", <<"u", "n">>) >> }

\* The budgets of the tests (threshold 200 at 50 or 100 tokens a message)
\* and the all-defaults budget, with the tail sizes callers give.
AsyncConfigs ==
    { [maxModelTokens    |-> b[1],
       thresholdPercent  |-> b[2],
       estimateTokens    |-> b[3],
       minRecentMessages |-> r] :
          b \in { <<{400}, {50}, {"constant50"}>>,
                  <<{400}, {50}, {"constant100"}>>,
                  <<{}, {}, {}>> },
          r \in { {}, {0}, {2} } }

\* new SummarizeCompressor({ model, maxMessages }) throws below 4
MaxMessagesChoices == {4, 5}

\* compress(messages) of the instance, up to its await
CompressUntilAwait(s, c, max, prompt, msgs) ==
    CASE s = "trim"            -> ReturnAtOnce(TrimCompress(c, msgs))
      [] s = "summarize"       -> SummarizeByTokens(c, prompt, msgs)
      [] s = "summarize-count" -> SummarizeByCount(max, prompt, msgs)

\* Slip: the dropped messages are removed from the argument itself.
TrimArgumentSpliced(c, msgs) == TrimCompress(c, msgs)

\* The caller's array after TrimCompressor.compress ran on it: the code
\* reads messages.length, messages[i] and messages.map, and writes only to
\* its own keepMask and result.
TrimArgument(c, msgs) == msgs

\* The caller's array after SummarizeCompressor.compress ran on it up to
\* its await: slice copies, and nothing is assigned to messages.
SummarizeArgument(msgs) == msgs

ArgumentAfter(s, c, msgs) ==
    IF s = "trim" THEN TrimArgument(c, msgs) ELSE SummarizeArgument(msgs)

\* Slip: systemMessage and messagesToKeep are kept on the instance, so a
\* call resumes with what the latest call to reach the await stored.
ResumeLocalsShared(cs, c) ==
    IF \E d \in Callers \ {c} : cs[d].pc = "awaiting"
    THEN cs[CHOOSE d \in Callers \ {c} : cs[d].pc = "awaiting"].locals
    ELSE cs[c].locals

\* systemMessage and messagesToKeep are consts of the call: the code after
\* the await sees the values of its own call.
ResumeLocals(cs, c) == cs[c].locals

\* Slip: a failure of the model is caught and the input is returned.
OnModelFailureFallback(call, failure) ==
    [call EXCEPT !.pc = "resolved", !.result = call.before]

\* `await this.model.invoke(promptMessages)` is in no try block: the
\* rejection leaves compress as it came.
OnModelFailure(call, failure) ==
    [call EXCEPT !.pc = "rejected", !.error = failure]

InitAsync ==
    /\ strategy \in {"trim", "summarize", "summarize-count"}
    /\ IF strategy = "summarize-count"
       THEN /\ config = [maxModelTokens |-> {}, thresholdPercent |-> {},
                         estimateTokens |-> {}, minRecentMessages |-> {}]
            /\ cfg = NotConstructed
            /\ maxMessages \in MaxMessagesChoices
       ELSE /\ config \in AsyncConfigs
            /\ cfg = normalizeBudgetConfig(config, ConstructorOptions(strategy))
            /\ maxMessages = 0
    /\ summaryPrompt = IF strategy = "trim" THEN <<>> ELSE PromptOrDefault({})
    /\ messages \in AsyncHistories
    /\ rest \in Continuations
    /\ adapter = NoConversion
    /\ pc = "idle"
    /\ allowed = FALSE
    /\ result = <<>>
    /\ again = <<>>
    /\ calls = NoCalls

\* The conversation brings its next message; the caller appends it.
AppendNext ==
    /\ rest # <<>>
    /\ messages' = Append(messages, Head(rest))
    /\ rest' = Tail(rest)
    /\ UNCHANGED <<config, cfg, pc, allowed, result, again, strategy,
                   summaryPrompt, maxMessages, calls>>
    /\ UNCHANGED adapter

\* Call site c: compressor.compress([...messages]), run up to its await or,
\* when it has none, to its return.
StartCompress(c) ==
    /\ calls[c].pc = "none"
    /\ LET plan == CompressUntilAwait(strategy, cfg, maxMessages,
                                      summaryPrompt, messages)
       IN  calls' = [calls EXCEPT ![c] =
               [pc          |-> IF plan.kind = "return" THEN "resolved"
                                ELSE "awaiting",
                before      |-> messages,
                input       |-> ArgumentAfter(strategy, cfg, messages),
                locals      |-> plan.locals,
                invocations |-> IF plan.kind = "return" THEN <<>>
                                ELSE <<plan.promptMessages>>,
                response    |-> <<>>,
                failure     |-> "",
                result      |-> plan.result,
                error       |-> ""]]
    /\ UNCHANGED <<config, cfg, messages, pc, allowed, result, again,
                   strategy, summaryPrompt, maxMessages, rest>>
    /\ UNCHANGED adapter

\* The model answers the invoke of call c; compress goes on to its return.
ModelResolves(c, summaryText) ==
    /\ calls[c].pc = "awaiting"
    /\ LET locals == ResumeLocals(calls, c)
       IN  calls' = [calls EXCEPT ![c] =
               [@ EXCEPT !.pc = "resolved",
                         !.response = summaryText,
                         !.result = ComposeResult(locals[1],
                                        SummaryMessage(summaryText),
                                        locals[2])]]
    /\ UNCHANGED <<config, cfg, messages, pc, allowed, result, again,
                   strategy, summaryPrompt, maxMessages, rest>>
    /\ UNCHANGED adapter

\* The model rejects the invoke of call c.
ModelRejects(c, failure) ==
    /\ calls[c].pc = "awaiting"
    /\ calls' = [calls EXCEPT ![c] =
                     OnModelFailure([@ EXCEPT !.failure = failure], failure)]
    /\ UNCHANGED <<config, cfg, messages, pc, allowed, result, again,
                   strategy, summaryPrompt, maxMessages, rest>>
    /\ UNCHANGED adapter

\* history = await compressor.compress(history): the caller continues from
\* the list the call resolved with.
AdoptResult(c) ==
    /\ calls[c].pc = "resolved"
    /\ messages' = calls[c].result
    /\ calls' = [calls EXCEPT ![c] = NoCall]
    /\ UNCHANGED <<config, cfg, pc, allowed, result, again, strategy,
                   summaryPrompt, maxMessages, rest>>
    /\ UNCHANGED adapter

\* The caller lets go of a settled call: it handled the rejection, or it
\* has no use for the result.
Release(c) ==
    /\ calls[c].pc \in {"resolved", "rejected"}
    /\ calls' = [calls EXCEPT ![c] = NoCall]
    /\ UNCHANGED <<config, cfg, messages, pc, allowed, result, again,
                   strategy, summaryPrompt, maxMessages, rest>>
    /\ UNCHANGED adapter

NextAsync ==
    \/ AppendNext
    \/ \E c \in Callers : StartCompress(c)
    \/ \E c \in Callers : \E t \in ModelTexts : ModelResolves(c, t)
    \/ \E c \in Callers : \E f \in ModelFailures : ModelRejects(c, f)
    \/ \E c \in Callers : AdoptResult(c)
    \/ \E c \in Callers : Release(c)

SpecAsync == InitAsync /\ [][NextAsync]_vars

----------------------------------------------------------------------------
(* The message-count SummarizeCompressor, from its construction on *)

\* tests/summarize.test.ts: 'shifts forward by 1 ...'
HistoryShiftForward ==
    << Msg("system", <<"s", "y", "s">>),
       Msg("user", <<"u", "1">>),
       Msg("assistant", <<"a", "1">>),
       Msg("user", <<"u", "2">>),
       Msg("assistant", <<"a", "2">>),
       Msg("user", <<"u", "3">>),
       Msg("assistant", <<"a", "3">>),
       Msg("user", <<"u", "4">>),
       Msg("assistant", <<"a", "4">>),
       Msg("user", <<"u", "5">>) >>

\* tests/summarize.test.ts: 'shifts backward by 1 ...'
HistoryShiftBackward ==
    << Msg("system", <<"s", "y", "s">>),
       Msg("user", <<"u", "1">>),
       Msg("assistant", <<"a", "1">>),
       Msg("user", <<"u", "2">>),
       Msg("user", <<"u", "2", "b">>),
       Msg("assistant", <<"a", "3">>),
       Msg("assistant", <<"a", "4">>),
       Msg("user", <<"u", "3">>),
       Msg("assistant", <<"a", "5">>) >>

\* tests/summarize.test.ts: "works when first message isn't system ..."
HistoryAlternating ==
    << Msg("user", <<"u", "0">>),
       Msg("assistant", <<"a", "1">>),
       Msg("user", <<"u", "2">>),
       Msg("assistant", <<"a", "3">>),
       Msg("user", <<"u", "4">>),
       Msg("assistant", <<"a", "5">>),
       Msg("user", <<"u", "6">>),
       Msg("assistant", <<"a", "7">>),
       Msg("user", <<"u", "8">>),
       Msg("assistant", <<"a", "9">>) >>

\* A turn in which the assistant calls two tools before it answers.
HistoryToolRun ==
    << Msg("system", <<"s", "y", "s">>),
       Msg("user", <<"u", "1">>),
       Msg("assistant", <<"a", "1">>),
       Msg("tool", <<"t", "1">>),
       Msg("tool", <<"t", "2">>),
       Msg("assistant", <<"a", "2">>),
       Msg("user", <<"u", "2">>) >>

CountHistories ==
    { HistoryShiftForward, HistoryShiftBackward, HistoryAlternating,
      HistoryToolRun, HistoryScenarioC, HistoryHumanTurns, HistoryUserLast }

\* SummarizeConfig { model, maxMessages, prompt? } as callers give it: the
\* tests' 6, the values around the constructor's limit, and a custom, an
\* empty or no prompt.
SummarizeConfigs ==
    [maxMessages : {-1, 0, 3, 4, 5, 6},
     prompt : { {}, {<<>>}, {<<"S", "u", "m", ":">>} }]

InitCount ==
    /\ strategy = "summarize-count"
    /\ config \in SummarizeConfigs
    /\ cfg = NotConstructed
    /\ maxMessages = 0
    /\ summaryPrompt = <<>>
    /\ messages \in CountHistories
    /\ rest \in Continuations
    /\ adapter = NoConversion
    /\ pc = "new"
    /\ allowed = FALSE
    /\ result = <<>>
    /\ again = <<>>
    /\ calls = NoCalls

\* Slip: the limit is taken one too low.
ConstructorThrowsBelowThree(c) == c.maxMessages < 3

\* if (config.maxMessages < 4) throw new Error(...)
ConstructorThrows(c) == c.maxMessages < 4

\* new SummarizeCompressor(config): throws below 4, else sets its fields
ConstructCount ==
    /\ pc = "new"
    /\ IF ConstructorThrows(config)
       THEN /\ pc' = "threw"
            /\ UNCHANGED <<maxMessages, summaryPrompt>>
       ELSE /\ pc' = "idle"
            /\ maxMessages' = config.maxMessages
            /\ summaryPrompt' = PromptOrDefault(config.prompt)
    /\ UNCHANGED <<config, cfg, messages, allowed, result, again, strategy,
                   calls, rest>>
    /\ UNCHANGED adapter

\* The caller uses the instance the constructor returned.
NextCount ==
    \/ ConstructCount
    \/ pc = "idle" /\ AppendNext
    \/ \E c \in Callers : pc = "idle" /\ StartCompress(c)
    \/ \E c \in Callers : \E t \in ModelTexts : ModelResolves(c, t)
    \/ \E c \in Callers : \E f \in ModelFailures : ModelRejects(c, f)
    \/ \E c \in Callers : AdoptResult(c)
    \/ \E c \in Callers : Release(c)

SpecCount == InitCount /\ [][NextCount]_vars

----------------------------------------------------------------------------
(* A LangChain message converted by the adapter and converted back *)

\* The contents of the LangChain messages the model starts from: the strings
\* and content arrays of tests/adapters/langchain.test.ts, and their like
LangChainContents ==
    { StringContent(<<"H", "i">>),
      StringContent(<<" ", "h", "i", " ">>),
      StringContent(<<"a", "\n">>),
      StringContent(<<>>),
      StringContent(<<" ", " ">>),
      ArrayContent(<<>>),
      ArrayContent(<<ImagePart>>),
      ArrayContent(<<TextPart(<<"H", "i">>)>>),
      ArrayContent(<<TextPart(<<"H", "i">>), ImagePart>>),
      ArrayContent(<<StringPart(<<"a">>), TextPart(<<"b">>)>>),
      ArrayContent(<<TextPart(<<" ">>), ImagePart>>) }

Ids == { {}, {"msg_123"} }

Names == { {}, {"test-user"} }

KwargsObjects == { {}, {<<"custom_field", "value">>} }

ResponseMetadataObjects == { {}, {<<"model", "gpt-4">>} }

\* The messages of the classes without tool fields
PlainLangChainMessages ==
    [type              : {"system", "human", "ai", "generic"},
     content           : LangChainContents,
     id                : Ids,
     name              : Names,
     additional_kwargs : KwargsObjects,
     response_metadata : ResponseMetadataObjects,
     tool_call_id      : { {} },
     status            : { {} },
     artifact          : { {} },
     metadata          : { {} }]

\* The ToolMessages
ToolLangChainMessages ==
    [type              : {"tool"},
     content           : LangChainContents,
     id                : Ids,
     name              : { {} },
     additional_kwargs : KwargsObjects,
     response_metadata : { {} },
     tool_call_id      : { {"call_123"}, {""} },
     status            : { {}, {"success"} },
     artifact          : { {}, {"artifact"} },
     metadata          : { {}, {{<<"execution_time", "100">>}} }]

LangChainMessages == PlainLangChainMessages \cup ToolLangChainMessages

InitAdapter ==
    /\ adapter \in {[NoConversion EXCEPT !.pc = "given", !.message = m] :
                        m \in LangChainMessages}
    /\ strategy = "trim"
    /\ config = [maxModelTokens |-> {}, thresholdPercent |-> {},
                 estimateTokens |-> {}, minRecentMessages |-> {}]
    /\ cfg = NotConstructed
    /\ pc = "new"
    /\ messages = <<>>
    /\ allowed = FALSE
    /\ result = <<>>
    /\ again = <<>>
    /\ summaryPrompt = <<>>
    /\ maxMessages = 0
    /\ calls = NoCalls
    /\ rest = <<>>

\* baseToSlim(message)
BaseToSlim ==
    /\ adapter.pc = "given"
    /\ adapter' = [adapter EXCEPT !.pc = "slim",
                                  !.slim = baseToSlim(adapter.message)]
    /\ UNCHANGED <<config, cfg, messages, pc, allowed, result, again,
                   strategy, summaryPrompt, maxMessages, calls, rest>>

\* slimToLangChain(slim)
SlimToLangChain ==
    /\ adapter.pc = "slim"
    /\ adapter' = [adapter EXCEPT !.pc = "restored",
                                  !.restored = slimToLangChain(adapter.slim)]
    /\ UNCHANGED <<config, cfg, messages, pc, allowed, result, again,
                   strategy, summaryPrompt, maxMessages, calls, rest>>

NextAdapter == BaseToSlim \/ SlimToLangChain

SpecAdapter == InitAdapter /\ [][NextAdapter]_vars

----------------------------------------------------------------------------
(* Vocabulary of the properties, stated without the operators of the code *)

UserRoles == {"user", "human"}

LastRoleIn(msgs, roles) == Len(msgs) > 0 /\ msgs[Len(msgs)].role \in roles

\* floor(maxModelTokens * thresholdPercent) of the instance
StatedThreshold == (cfg.maxModelTokens * cfg.thresholdPercent) \div 100

\* Summed token estimates of a list under the instance's estimator
RECURSIVE EstimatedTotal(_)
EstimatedTotal(msgs) ==
    IF msgs = <<>> THEN 0
    ELSE EstimateTokens(cfg.estimateTokens, Head(msgs)) + EstimatedTotal(Tail(msgs))

\* Indices (1-based) of the messages that may not be dropped: every system
\* message and the last minRecentMessages messages.
ProtectedIndices(msgs) ==
    { i \in 1..Len(msgs) :
        msgs[i].role = "system" \/ i > Len(msgs) - cfg.minRecentMessages }

\* Indices (1-based) of the messages Trim may drop.
DroppableIndices(msgs) == (1..Len(msgs)) \ ProtectedIndices(msgs)

\* The messages of msgs at the indices in I, in the order of msgs
RECURSIVE PickFrom(_, _, _)
PickFrom(msgs, I, n) ==
    IF n = 0 THEN <<>>
    ELSE IF n \in I THEN Append(PickFrom(msgs, I, n - 1), msgs[n])
         ELSE PickFrom(msgs, I, n - 1)

Pick(msgs, I) == PickFrom(msgs, I, Len(msgs))

\* s can be obtained from t by deleting messages
RECURSIVE IsSubsequence(_, _)
IsSubsequence(s, t) ==
    IF s = <<>> THEN TRUE
    ELSE IF t = <<>> THEN FALSE
    ELSE IF Head(s) = Head(t) THEN IsSubsequence(Tail(s), Tail(t))
    ELSE IsSubsequence(s, Tail(t))

Called == pc \in {"compressed", "recompressed"}

\* The call sites whose compress call has started (in flight or settled)
Started == { c \in Callers : calls[c].pc # "none" }

\* Number of leading system messages a Summarize call sets aside: 0 or 1
LeadingSystem(msgs) ==
    IF Len(msgs) > 0 /\ msgs[1].role = "system" THEN 1 ELSE 0

\* The list lies over the instance's threshold and ends on a user turn.
OverThresholdUserLast(msgs) ==
    LastRoleIn(msgs, UserRoles) /\ EstimatedTotal(msgs) > StatedThreshold

\* m is a synthetic system message that wraps the text the model returned.
IsSummaryOf(m, text) ==
    /\ m.role = "system"
    /\ m.metadata = {}
    /\ Len(m.content) > Len(text)
    /\ SubSeq(m.content, Len(m.content) - Len(text) + 1, Len(m.content)) = text

\* The text of a role, by a table of its own
RoleName(role) ==
    IF role = "system" THEN <<"s", "y", "s", "t", "e", "m">>
    ELSE IF role = "user" THEN <<"u", "s", "e", "r">>
    ELSE IF role = "human" THEN <<"h", "u", "m", "a", "n">>
    ELSE IF role = "tool" THEN <<"t", "o", "o", "l">>
    ELSE <<"a", "s", "s", "i", "s", "t", "a", "n", "t">>

\* The transcript of the first n messages of ms: one `<role>: <content>`
\* entry per message in order, a separator line between two entries
RECURSIVE TranscriptOf(_, _)
TranscriptOf(ms, n) ==
    IF n = 0 THEN <<>>
    ELSE (IF n = 1 THEN <<>>
          ELSE TranscriptOf(ms, n - 1) \o <<"\n", "-", "-", "-", "\n">>)
         \o RoleName(ms[n].role) \o <<":", " ">> \o ms[n].content

\* The list with every `human` role written as `user`
AsUser(msgs) ==
    [i \in 1..Len(msgs) |->
        IF msgs[i].role = "human" THEN [msgs[i] EXCEPT !.role = "user"]
        ELSE msgs[i]]

\* What a call that ran alone on the list `before`, with the model giving
\* `response`, resolves with.
AloneResult(before, response) ==
    LET plan == CompressUntilAwait(strategy, cfg, maxMessages, summaryPrompt,
                                   before)
    IN  IF plan.kind = "return" THEN plan.result
        ELSE ComposeResult(plan.locals[1], SummaryMessage(response),
                           plan.locals[2])

\* The configuration the instance was constructed with, normalized
ConstructedCfg ==
    IF strategy = "summarize-count" THEN NotConstructed
    ELSE normalizeBudgetConfig(config, ConstructorOptions(strategy))

\* The call of call site c resolved after it had the model summarize.
Summarized(c) == calls[c].pc = "resolved" /\ calls[c].invocations # <<>>

\* The call sites whose message-count call resolved on a list longer than
\* maxMessages
ResolvedOverCount ==
    { c \in Callers : /\ strategy = "summarize-count"
                      /\ calls[c].pc = "resolved"
                      /\ Len(calls[c].before) > maxMessages }

\* The default split of the message-count class: the 0-based index that
\* leaves maxMessages messages with the system message and the summary
DefaultSplit(msgs) ==
    Len(msgs) - (maxMessages - (1 + LeadingSystem(msgs)))

\* The 0-based index of the input at which the tail a call kept starts
TailStart(c) ==
    Len(calls[c].before)
        - (Len(calls[c].result) - LeadingSystem(calls[c].before) - 1)

\* Something lies between the leading system message and the recent tail.
HasMiddle(msgs) == Len(msgs) - cfg.minRecentMessages > LeadingSystem(msgs)

\* The four classes of LangChain message the adapter knows
LangChainClasses == {"system", "human", "ai", "tool"}

\* Records a and b agree on the fields named
SameFields(a, b, names) == \A f \in names : a[f] = b[f]

\* The k oldest droppable messages of msgs, as indices
FirstDroppable(msgs, k) ==
    LET D == DroppableIndices(msgs)
    IN  { i \in D : Cardinality({ j \in D : j < i }) < k }

\* msgs without its k oldest droppable messages
WithoutFirstDroppable(msgs, k) ==
    Pick(msgs, (1..Len(msgs)) \ FirstDroppable(msgs, k))

\* The smallest number of oldest droppable messages whose removal brings
\* the estimated total within the threshold; all of them when none does
ShortestPrefix(msgs) ==
    LET n == Cardinality(DroppableIndices(msgs))
        enough == { k \in 0..n :
                      EstimatedTotal(WithoutFirstDroppable(msgs, k))
                        <= StatedThreshold }
    IN  IF enough = {} THEN n
        ELSE CHOOSE k \in enough : \A j \in enough : k <= j

\* msgs is one of the histories a conversation starts from, grown by the
\* caller's appends alone: no compressed list has been adopted on the way
GrownByAppends(msgs) ==
    \E h \in InitialHistories :
        /\ Len(h) <= Len(msgs)
        /\ SubSeq(msgs, 1, Len(h)) = h
        /\ \A i \in (Len(h) + 1)..Len(msgs) :
              msgs[i] = NewMessage(msgs[i].role, i)

\* m is a summary message a SummarizeCompressor made: a system message
\* whose content starts with the summary prefix
IsSynthetic(m) ==
    /\ m.role = "system"
    /\ Len(m.content) >= Len(SummaryPrefix)
    /\ SubSeq(m.content, 1, Len(SummaryPrefix)) = SummaryPrefix

\* The positions (1-based) of the synthetic summary messages of a list
SummaryIndices(msgs) == { i \in 1..Len(msgs) : IsSynthetic(msgs[i]) }

\* The list starts with a system message that is not a synthetic summary.
StartsWithOriginalSystem(msgs) ==
    Len(msgs) > 0 /\ msgs[1].role = "system" /\ ~IsSynthetic(msgs[1])

\* The list starts with a synthetic summary.
StartsWithSummary(msgs) == Len(msgs) > 0 /\ IsSynthetic(msgs[1])

\* The transcript the model was given by call c is that of the messages of
\* the input from position `from` (1-based) up to the kept tail.
SummarizedFrom(c, from) ==
    /\ TailStart(c) >= from
    /\ calls[c].invocations[1][2].content
          = TranscriptOf(SubSeq(calls[c].before, from, TailStart(c)),
                         TailStart(c) - from + 1)

----------------------------------------------------------------------------
(* Properties *)

\* C1: shouldAllowCompression(messages) is false for the empty list, and for
\* a non-empty list it is true exactly when the role of the last message is
\* user or human, whatever the roles of the earlier messages.
C1_GateDecision ==
    Called => (allowed <=> (Len(messages) > 0 /\ messages[Len(messages)].role \in UserRoles))

\* C1 witness: the gate let a list through that ends with `human` and starts
\* with an assistant message.
C1_Witness ==
    /\ Called /\ allowed /\ Len(messages) >= 2
    /\ messages[1].role = "assistant"
    /\ messages[Len(messages)].role = "human"

C3_UnderThresholdUnchanged ==
    (Called /\ LastRoleIn(messages, UserRoles)
            /\ EstimatedTotal(messages) <= StatedThreshold)
        => result = messages

\* C3 witness: the boundary, a total equal to the threshold, on a list that
\* has a droppable message.
C3_Witness ==
    /\ Called /\ LastRoleIn(messages, UserRoles)
    /\ EstimatedTotal(messages) = StatedThreshold
    /\ DroppableIndices(messages) # {}
    /\ result = messages

\* C4: every system message of the input, at any index, is in the output:
\* the system messages of the output are those of the input, in order.
C4_SystemPreserved ==
    Called =>
        Pick(result, {i \in 1..Len(result) : result[i].role = "system"})
          = Pick(messages, {i \in 1..Len(messages) : messages[i].role = "system"})

\* C4 witness: Trim dropped messages, the input had a system message that is
\* neither first nor among the protected recent ones, and the output is
\* still over the threshold.
C4_Witness ==
    /\ Called /\ result # messages
    /\ \E i \in 2..Len(messages) :
          /\ messages[i].role = "system"
          /\ i <= Len(messages) - cfg.minRecentMessages
    /\ EstimatedTotal(result) > StatedThreshold

\* C5: the last min(minRecentMessages, length) messages of the input are
\* exactly the final messages of the output, in the same order.
C5_RecentPreserved ==
    Called =>
        LET k == Min(cfg.minRecentMessages, Len(messages))
        IN  /\ Len(result) >= k
            /\ SubSeq(result, Len(result) - k + 1, Len(result))
                 = SubSeq(messages, Len(messages) - k + 1, Len(messages))

\* C5 witness: Trim dropped messages and kept a recent tail of three that
\* holds an assistant message and is over the threshold on its own.
C5_Witness ==
    /\ Called /\ result # messages
    /\ cfg.minRecentMessages = 3 /\ Len(messages) > 3
    /\ \E i \in (Len(messages) - 2)..Len(messages) : messages[i].role = "assistant"
    /\ EstimatedTotal(SubSeq(messages, Len(messages) - 2, Len(messages))) > StatedThreshold

\* C6: for a list that passes the gate, if the summed estimates of the
\* messages that may not be dropped is at most the threshold, then the
\* summed estimates of the output is at most the threshold.
C6_ReachesThreshold ==
    (Called /\ LastRoleIn(messages, UserRoles)
            /\ EstimatedTotal(Pick(messages, ProtectedIndices(messages))) <= StatedThreshold)
        => EstimatedTotal(result) <= StatedThreshold

\* C6 witness: Trim dropped messages, stopped before the droppable ones were
\* exhausted, and the output is within the threshold.
C6_Witness ==
    /\ Called /\ LastRoleIn(messages, UserRoles)
    /\ result # messages
    /\ Len(result) > Cardinality(ProtectedIndices(messages))
    /\ EstimatedTotal(result) <= StatedThreshold

C8_Subsequence ==
    Called => IsSubsequence(result, messages)

\* C8 witness: Trim dropped a message and kept at least two, one of them
\* carrying metadata.
C8_Witness ==
    /\ Called /\ result # messages
    /\ Len(result) >= 2
    /\ \E j \in 1..Len(result) : result[j].metadata # {}

\* C9: compress(compress(messages)) equals compress(messages).
C9_Idempotent ==
    pc = "recompressed" => again = result

\* C9 witness: the first call dropped messages, and its output passes the
\* gate and is still over the threshold when compress is called on it again.
C9_Witness ==
    /\ pc = "recompressed" /\ result # messages
    /\ LastRoleIn(result, UserRoles)
    /\ EstimatedTotal(result) > StatedThreshold
    /\ Len(result) >= 2

\* tests/trim.test.ts: the configuration of the first test, normalized
ScenarioACfg ==
    [maxModelTokens    |-> 400,
     thresholdPercent  |-> 50,
     estimateTokens    |-> "constant100",
     minRecentMessages |-> 2]

\* C10: Scenario A: at 100 tokens a message, maxModelTokens 400,
\* thresholdPercent 0.5 and minRecentMessages 2, compress on
\* [sys, u1, a1, u2, a2, u3] returns exactly [system sys, assistant a2, user u3].
C10_ScenarioA ==
    (Called /\ cfg = ScenarioACfg /\ messages = HistoryA)
        => result = << Msg("system", <<"s", "y", "s">>),
                       Msg("assistant", <<"a", "2">>),
                       Msg("user", <<"u", "3">>) >>

\* C10 witness: compress was called on the history of Scenario A under the
\* configuration of Scenario A and returned three messages.
C10_Witness ==
    /\ Called /\ cfg = ScenarioACfg /\ messages = HistoryA
    /\ StatedThreshold = 200
    /\ Len(result) = 3

\* C17 as stated: for every configuration the normalizer accepts (it rejects
\* none), floor(maxModelTokens * thresholdPercent) is >= 0 and the
\* normalized minRecentMessages is >= 0.
C17_Original ==
    pc = "constructed" =>
        /\ computeThresholdTokens(cfg.maxModelTokens, cfg.thresholdPercent) >= 0
        /\ cfg.minRecentMessages >= 0

\* C17 amended: the normalized minRecentMessages is >= 0 for every
\* configuration, and thresholdTokens is >= 0 for every configuration whose
\* maxModelTokens and thresholdPercent are both non-negative.
C17_BudgetInvariant ==
    pc = "constructed" =>
        /\ cfg.minRecentMessages >= 0
        /\ (cfg.maxModelTokens >= 0 /\ cfg.thresholdPercent >= 0)
              => computeThresholdTokens(cfg.maxModelTokens, cfg.thresholdPercent) >= 0

\* C17 witness: an instance built from a negative minRecentMessages and a
\* thresholdPercent above 1, whose threshold is above maxModelTokens.
C17_Witness ==
    /\ pc = "constructed"
    /\ config.minRecentMessages = {-1}
    /\ config.thresholdPercent = {150}
    /\ cfg.maxModelTokens > 0
    /\ computeThresholdTokens(cfg.maxModelTokens, cfg.thresholdPercent) > cfg.maxModelTokens

\* C18: the normalizer fills an unset field with its default (8192, 0.7,
\* the default estimator, and minRecentMessages 2 for Trim and 4 for
\* Summarize) and leaves a supplied field as given, except that a supplied
\* negative minRecentMessages becomes 0.
C18_Defaults ==
    pc = "constructed" =>
        /\ cfg.maxModelTokens =
              (IF config.maxModelTokens = {} THEN 8192
               ELSE CHOOSE v \in config.maxModelTokens : TRUE)
        /\ cfg.thresholdPercent =
              (IF config.thresholdPercent = {} THEN 70
               ELSE CHOOSE v \in config.thresholdPercent : TRUE)
        /\ IF config.estimateTokens = {}
           THEN \A m \in {HistoryToolLast[i] : i \in 1..Len(HistoryToolLast)} :
                    EstimateTokens(cfg.estimateTokens, m) = (Len(m.content) + 3) \div 4 + 2
           ELSE cfg.estimateTokens = CHOOSE v \in config.estimateTokens : TRUE
        /\ cfg.minRecentMessages =
              (IF config.minRecentMessages = {}
               THEN (IF strategy = "trim" THEN 2 ELSE 4)
               ELSE LET v == CHOOSE w \in config.minRecentMessages : TRUE
                    IN  IF v < 0 THEN 0 ELSE v)

\* C18 witness: a SummarizeCompressor built from a configuration that sets
\* only thresholdPercent, to 0.
C18_Witness ==
    /\ pc = "constructed" /\ strategy = "summarize"
    /\ config.maxModelTokens = {} /\ config.estimateTokens = {}
    /\ config.minRecentMessages = {}
    /\ config.thresholdPercent = {0}
    /\ cfg.minRecentMessages = 4 /\ cfg.thresholdPercent = 0

C12_SummarizeStructure ==
    strategy = "summarize" =>
        \A c \in Callers :
            LET b == calls[c].before
                r == calls[c].result
                s == LeadingSystem(b)
                n == cfg.minRecentMessages
            IN  (/\ calls[c].pc = "resolved"
                 /\ OverThresholdUserLast(b)
                 /\ HasMiddle(b)) =>
                    /\ Len(r) = s + 1 + n
                    /\ SubSeq(r, 1, s) = SubSeq(b, 1, s)
                    /\ IsSummaryOf(r[s + 1], calls[c].response)
                    /\ SubSeq(r, s + 2, s + 1 + n)
                           = SubSeq(b, Len(b) - n + 1, Len(b))

\* Scenario C: [system, u0 .. u9] at 50 tokens a message, threshold 200 and
\* a tail of 2 came back as [system, summary of 'fake summary', u8, u9].
C12_Witness ==
    /\ strategy = "summarize"
    /\ cfg.estimateTokens = "constant50"
    /\ \E c \in Callers :
          /\ calls[c].pc = "resolved"
          /\ calls[c].before = HistoryScenarioC
          /\ calls[c].response
                = <<"f", "a", "k", "e", " ", "s", "u", "m", "m", "a", "r", "y">>
          /\ Len(calls[c].result) = 4
          /\ calls[c].result[1] = Msg("system", <<"s", "y", "s">>)
          /\ calls[c].result[2].role = "system"
          /\ calls[c].result[3] = Msg("user", <<"u", "8">>)
          /\ calls[c].result[4] = Msg("user", <<"u", "9">>)

\* C13: when nothing lies between the leading system message (or the start
\* of the list) and the recent tail, the token-threshold SummarizeCompressor
\* resolves with its input and has not invoked the model, also over the
\* threshold.
C13_EmptyMiddle ==
    strategy = "summarize" =>
        \A c \in Started :
            ~HasMiddle(calls[c].before) =>
                /\ calls[c].pc = "resolved"
                /\ calls[c].result = calls[c].before
                /\ calls[c].invocations = <<>>

\* Scenario D: [system, u1, u2] over the threshold with a tail of 2 came
\* back unchanged.
C13_Witness ==
    /\ strategy = "summarize"
    /\ cfg.minRecentMessages = 2
    /\ \E c \in Started :
          /\ calls[c].before = HistoryScenarioD
          /\ OverThresholdUserLast(calls[c].before)
          /\ calls[c].result = HistoryScenarioD
          /\ calls[c].invocations = <<>>

\* C14: a call whose model invocation rejected is rejected with that same
\* failure: it never resolves, it has invoked the model once, it has no
\* result, and its input list holds what it held before the call.
C14_FailurePropagates ==
    \A c \in Callers :
        /\ calls[c].failure # "" => calls[c].pc = "rejected"
        /\ calls[c].pc = "rejected" =>
              /\ calls[c].failure \in ModelFailures
              /\ calls[c].error = calls[c].failure
              /\ Len(calls[c].invocations) = 1
              /\ calls[c].result = <<>>
              /\ calls[c].input = calls[c].before

\* The model rejected the invocation of a call of either SummarizeCompressor
\* on a list of several messages.
C14_Witness ==
    \E c \in Callers :
        /\ calls[c].pc = "rejected"
        /\ calls[c].failure \in ModelFailures
        /\ Len(calls[c].before) > 2

\* C15: a call of a SummarizeCompressor that summarizes invokes the model
\* once, with [system: prompt, user: transcript]; the transcript renders the
\* messages after the leading system message and before the kept tail, one
\* `<role>: <content>` entry each in their order, so that the input is the
\* leading system message, the transcribed messages and the kept tail.
C15_ModelCall ==
    strategy \in {"summarize", "summarize-count"} =>
        \A c \in Callers :
            LET b    == calls[c].before
                s    == LeadingSystem(b)
                inv  == calls[c].invocations
                tail == calls[c].locals[2]
                k    == Len(b) - Len(tail)
            IN  /\ calls[c].response # <<>> => inv # <<>>
                /\ inv # <<>> =>
                      /\ Len(inv) = 1
                      /\ Len(inv[1]) = 2
                      /\ inv[1][1] = [role |-> "system",
                                      content |-> summaryPrompt,
                                      metadata |-> {}]
                      /\ inv[1][2].role = "user"
                      /\ inv[1][2].metadata = {}
                      /\ k >= s
                      /\ tail = SubSeq(b, k + 1, Len(b))
                      /\ inv[1][2].content
                            = TranscriptOf(SubSeq(b, s + 1, k), k - s)
                      /\ calls[c].pc = "resolved" =>
                            /\ Len(calls[c].result) = s + 1 + Len(tail)
                            /\ SubSeq(calls[c].result, 1, s) = SubSeq(b, 1, s)
                            /\ SubSeq(calls[c].result, s + 2, s + 1 + Len(tail))
                                  = tail

\* A call summarized a middle of several messages, one of them a tool
\* result, and kept a tail.
C15_Witness ==
    /\ strategy = "summarize"
    /\ \E c \in Callers :
          /\ calls[c].pc = "resolved"
          /\ Len(calls[c].invocations) = 1
          /\ Len(calls[c].result) > 1 + LeadingSystem(calls[c].before)
          /\ Len(calls[c].before) > Len(calls[c].result) + 1
          /\ \E i \in 1..Len(calls[c].before) :
                /\ calls[c].before[i].role = "tool"
                /\ i <= Len(calls[c].before) - cfg.minRecentMessages

\* C16: `human` is an alias of `user` for every policy decision: had the
\* input of a call been written with `user` for each `human`, the call
\* would have decided alike: to return at once or to summarize, which
\* messages to return, and where the kept tail starts.
C16_HumanAlias ==
    \A c \in Started :
        LET b     == calls[c].before
            alias == CompressUntilAwait(strategy, cfg, maxMessages,
                                        summaryPrompt, AsUser(b))
        IN  IF calls[c].invocations = <<>>
            THEN /\ alias.kind = "return"
                 /\ alias.result = AsUser(calls[c].result)
            ELSE /\ alias.kind = "invoke"
                 /\ alias.locals[2] = AsUser(calls[c].locals[2])

\* The same, for the decisions the claim holds of: the gate, Trim's drop
\* set and the tail of the token-threshold SummarizeCompressor.
C16_HumanAliasTokenThreshold ==
    strategy \in {"trim", "summarize"} => C16_HumanAlias

\* Every resolved call resolved with what it returns when run alone, and
\* the configuration of the instance is the one it was constructed with.
ResolvedAsAlone ==
    /\ cfg = ConstructedCfg
    /\ \A c \in Callers :
          calls[c].pc = "resolved" =>
              calls[c].result = AloneResult(calls[c].before, calls[c].response)

\* A step changes no field of the instance, and a step of one call site
\* leaves the call of the other (its input, locals and result) as it is.
NoInterference ==
    /\ cfg' = cfg
    /\ config' = config
    /\ summaryPrompt' = summaryPrompt
    /\ maxMessages' = maxMessages
    /\ \E c \in Callers : \A d \in Callers \ {c} : calls'[d] = calls[d]

\* C19: calls in flight on one instance are independent: every call that
\* resolved, however it interleaved with the other call at the model
\* invocation, resolved with what it returns when run alone on its input
\* with the same answer of the model; no step changes the configuration of
\* the instance or the input or result of another call.
C19_CallsIndependent == []ResolvedAsAlone /\ [][NoInterference]_vars

\* Both calls of a SummarizeCompressor summarized, on different inputs with
\* different tails and different answers of the model.
C19_Witness ==
    /\ strategy \in {"summarize", "summarize-count"}
    /\ calls["a"].pc = "resolved"
    /\ calls["b"].pc = "resolved"
    /\ calls["a"].response # <<>>
    /\ calls["b"].response # <<>>
    /\ calls["a"].response # calls["b"].response
    /\ calls["a"].before # calls["b"].before
    /\ calls["a"].locals # calls["b"].locals

\* C20: the input list is never mutated: after a call of either strategy,
\* whatever its outcome, the caller's list holds the messages it held
\* before the call: same roles, contents and metadata, same order and count.
C20_InputNotMutated ==
    \A c \in Started : calls[c].input = calls[c].before

\* A TrimCompressor call dropped messages of a list that holds a message
\* with metadata, and the list is as it was.
C20_Witness ==
    /\ strategy = "trim"
    /\ \E c \in Started :
          /\ Len(calls[c].result) < Len(calls[c].before)
          /\ \E i \in 1..Len(calls[c].before) :
                calls[c].before[i].metadata # {}
          /\ calls[c].input = calls[c].before

\* C25: the message-count configuration is validated at construction:
\* new SummarizeCompressor throws, and leaves no instance, exactly when
\* maxMessages < 4; so every compress call runs with maxMessages >= 4.
C25_ValidatedAtConstruction ==
    strategy = "summarize-count" =>
        /\ pc # "new" => (pc = "threw" <=> config.maxMessages < 4)
        /\ pc = "threw" => maxMessages = 0 /\ summaryPrompt = <<>>
        /\ pc = "idle" => maxMessages = config.maxMessages
        /\ pc # "idle" => Started = {}
        /\ Started # {} => maxMessages >= 4

\* The constructor threw for maxMessages 3.
C25_Witness ==
    /\ strategy = "summarize-count"
    /\ pc = "threw"
    /\ config.maxMessages = 3

\* C21: after compress of the message-count SummarizeCompressor on a
\* history longer than maxMessages the output starts with the system
\* message and the summary, and the first kept message after the summary
\* is a user turn.
C21_FirstKeptIsUser ==
    \A c \in ResolvedOverCount :
        LET b == calls[c].before
            r == calls[c].result
            s == LeadingSystem(b)
        IN  /\ Len(r) >= s + 2
            /\ SubSeq(r, 1, s) = SubSeq(b, 1, s)
            /\ IsSummaryOf(r[s + 1], calls[c].response)
            /\ r[s + 2].role \in UserRoles

\* C22: for every history longer than maxMessages, with or without a
\* leading system message, the output of the message-count
\* SummarizeCompressor has maxMessages - 1, maxMessages or maxMessages + 1
\* messages.
C22_OutputSize ==
    \A c \in ResolvedOverCount :
        Len(calls[c].result)
            \in {maxMessages - 1, maxMessages, maxMessages + 1}

\* One call came back with maxMessages + 1 messages, the other with
\* maxMessages - 1.
C22_Witness ==
    /\ ResolvedOverCount = Callers
    /\ \E c, d \in Callers :
          /\ Len(calls[c].result) = maxMessages + 1
          /\ Len(calls[d].result) = maxMessages - 1

C24_RoundTrip ==
    adapter.pc = "restored" /\ adapter.message.type \in LangChainClasses =>
        /\ SameFields(adapter.restored, adapter.message,
                      {"type", "content", "id", "name", "additional_kwargs",
                       "response_metadata"})
        /\ adapter.message.type = "tool" =>
               SameFields(adapter.restored, adapter.message,
                          {"tool_call_id", "status", "artifact"})

\* What does come back whatever the content: everything but the content
C24_AllButContent ==
    adapter.pc = "restored" /\ adapter.message.type \in LangChainClasses =>
        /\ SameFields(adapter.restored, adapter.message,
                      {"type", "id", "name", "additional_kwargs",
                       "response_metadata"})
        /\ adapter.message.type = "tool" =>
               SameFields(adapter.restored, adapter.message,
                          {"tool_call_id", "status", "artifact"})

C27_SecondPassIdle ==
    Called =>
        /\ (allowed /\ EstimatedTotal(messages) > StatedThreshold
               /\ AfterFirstPass(cfg, messages).total > StatedThreshold)
              => \A i \in DroppableIndices(messages) :
                    ~AfterFirstPass(cfg, messages).keepMask[i]
        /\ result = TrimCompressFirstPassOnly(cfg, messages)

\* C27 witness: the first pass dropped two messages and ended over the
\* threshold, so the second pass ran its scan, and found nothing to drop.
C27_Witness ==
    /\ Called /\ allowed
    /\ AfterFirstPass(cfg, messages).total > StatedThreshold
    /\ Cardinality(DroppableIndices(messages)) >= 2
    /\ PreserveFromIndex(cfg, messages) >= 2
    /\ Len(result) = Len(messages) - Cardinality(DroppableIndices(messages))
    /\ result = TrimCompressFirstPassOnly(cfg, messages)

\* C28: for every input that passes the gate and every configuration with
\* minRecentMessages >= 1, the output of Trim is non-empty and its last
\* message is the input's last message, so the output passes the gate
\* again; this holds in every round of (append, compress, continue from the
\* output).
C28_StaysOnUserTurn ==
    (Called /\ allowed /\ cfg.minRecentMessages >= 1) =>
        /\ result # <<>>
        /\ result[Len(result)] = messages[Len(messages)]
        /\ LastRoleIn(result, UserRoles)

\* C28 witness: a later round: the caller continued from a compressed list,
\* appended a user message, and Trim dropped messages again.
C28_Witness ==
    /\ Called /\ allowed /\ cfg.minRecentMessages >= 1
    /\ ~GrownByAppends(messages)
    /\ messages[Len(messages)] = NewMessage("user", Len(messages))
    /\ result # messages
    /\ result[Len(result)] = messages[Len(messages)]

\* C29: when the history starts with an original system message, over any
\* rounds of (append, compress, continue from the output) it holds at most
\* one synthetic summary message, at index 1 (the second message); a new
\* summarization puts the previous summary into the summarized middle and
\* replaces it by the new summary.
C29_OneSummary ==
    /\ StartsWithOriginalSystem(messages) => SummaryIndices(messages) \subseteq {2}
    /\ \A c \in Callers :
          (Summarized(c) /\ StartsWithOriginalSystem(calls[c].before)) =>
              /\ SummaryIndices(calls[c].before) \subseteq {2}
              /\ calls[c].result[1] = calls[c].before[1]
              /\ SummaryIndices(calls[c].result) = {2}
              /\ IsSummaryOf(calls[c].result[2], calls[c].response)
              /\ SummarizedFrom(c, 2)

\* C29 witness: a history that starts with an original system message and
\* already holds a summary was summarized again; the new summary, of another
\* text, stands where the previous one stood.
C29_Witness ==
    \E c \in Callers :
        /\ Summarized(c) /\ StartsWithOriginalSystem(calls[c].before)
        /\ SummaryIndices(calls[c].before) = {2}
        /\ SummaryIndices(calls[c].result) = {2}
        /\ calls[c].result[2] # calls[c].before[2]
        /\ SummarizedFrom(c, 2)

\* C30: when the history has no original leading system message, the first
\* summary stands at index 0; every later call treats it as the leading
\* system message: it is kept verbatim, is not part of the summarized
\* middle, and the new summary is placed after it, so that the history
\* holds two synthetic summary messages.
C30_TwoSummaries ==
    /\ ~StartsWithOriginalSystem(messages) =>
          SummaryIndices(messages) \in { {}, {1}, {1, 2} }
    /\ \A c \in Callers :
          /\ (Summarized(c) /\ LeadingSystem(calls[c].before) = 0) =>
                /\ IsSummaryOf(calls[c].result[1], calls[c].response)
                /\ SummaryIndices(calls[c].result) = {1}
          /\ (Summarized(c) /\ StartsWithSummary(calls[c].before)) =>
                /\ calls[c].result[1] = calls[c].before[1]
                /\ IsSummaryOf(calls[c].result[2], calls[c].response)
                /\ SummaryIndices(calls[c].result) = {1, 2}
                /\ SummarizedFrom(c, 2)

\* C30 witness: the caller's history holds two synthetic summaries of
\* different texts, and a call on it kept the first and replaced the second.
C30_Witness ==
    /\ SummaryIndices(messages) = {1, 2}
    /\ messages[1] # messages[2]
    /\ \E c \in Callers :
          /\ Summarized(c) /\ calls[c].before = messages
          /\ calls[c].result[1] = messages[1]
          /\ calls[c].result[2] # messages[2]
          /\ SummaryIndices(calls[c].result) = {1, 2}

====
